---- MODULE Spec2Model ----
(***************************************************************************)
(* Model of the NFZ queue search: the Directory Client (NFZApiClient in    *)
(* lib/nfz-api.ts), the ranking helpers (lib/nfz-api.ts) and the search    *)
(* session held by the NFZSearch component (components/NFZSearch.tsx).     *)
(*                                                                         *)
(* Two specifications share the definitions of the client:                 *)
(*   SpecClient  callers invoking the nine operations of NFZApiClient      *)
(*   Spec        the NFZSearch component: geolocation, searchFacilities    *)
(***************************************************************************)
EXTENDS Integers, Sequences, FiniteSets, TLC

VARIABLES
    calls,           \* SpecClient: the client calls made so far, in call order
    userLocation,    \* NFZSearch state: None or Some([lat, lon])
    province,        \* NFZSearch state: selected province code
    results,         \* NFZSearch state: the records shown in the table
    loading,         \* NFZSearch state
    error,           \* NFZSearch state: None or Some(message)
    summary,         \* NFZSearch state: None or Some(summary)
    geo,             \* the one-shot geolocation request of the mount effect
    inflight,        \* searchFacilities invocations suspended at their await
    responseData,    \* the data array of the response last handed to ranking
    started,         \* number of searchFacilities invocations so far
    newest,          \* what became of the most recently started search
    referral,        \* SpecAnalyzer: the text handed to parseReferral
    analysis,        \* SpecAnalyzer: None or Some(result of parseReferral)
    points,          \* SpecDistance: the two coordinates handed to calculateDistance
    measured,        \* SpecDistance: None or Some(distances both ways)
    referralText,    \* NFZSearch state
    selectedBenefit, \* NFZSearch state
    customBenefit,   \* NFZSearch state
    useCustomBenefit,    \* NFZSearch state
    availableBenefits,   \* NFZSearch state: the suggestion list
    loadingBenefits,     \* NFZSearch state
    lookups,         \* fetchBenefits invocations suspended at their await
    issued,          \* number of fetchBenefits invocations so far
    newestLookup,    \* what became of the most recently issued lookup
    onResultsFound,  \* NFZSearch prop: is the callback provided
    delivered        \* the last call of onResultsFound: its search, how many
                     \* calls that search has made, and its argument

analyzerVars == <<referral, analysis>>
distanceVars == <<points, measured>>
formVars == <<referralText, selectedBenefit, customBenefit, useCustomBenefit,
              availableBenefits, loadingBenefits, lookups, issued, newestLookup>>

callbackVars == <<onResultsFound, delivered>>

vars == <<calls, userLocation, province, results, loading, error, summary,
          geo, inflight, responseData, started, newest,
          analyzerVars, distanceVars, formVars, callbackVars>>

clientVars == <<calls>>
searchVars == <<userLocation, province, results, loading, error, summary,
                geo, inflight, responseData, started, newest>>

(***************************************************************************)
(* Bounds of the model.                                                    *)
(***************************************************************************)
MaxCalls == 1        \* client calls per behaviour of SpecClient
MaxSearches == 2     \* searchFacilities invocations per behaviour of Spec
MaxRecords == 2      \* records in one registry response

(***************************************************************************)
(* JavaScript values.                                                      *)
(***************************************************************************)
None == <<>>
Some(x) == <<x>>
UNDEFINED == "undefined"

\* A JavaScript number: finite (tenths or days, see the users), +-Infinity, NaN.
Fin(v) == [k |-> "fin", v |-> v]
Infinity == [k |-> "inf", s |-> 1]
NegInfinity == [k |-> "inf", s |-> -1]
NaN == [k |-> "nan"]

\* a - b on JavaScript numbers
Minus(a, b) ==
    IF a.k = "nan" \/ b.k = "nan" THEN NaN
    ELSE IF a.k = "inf" /\ b.k = "inf"
         THEN IF a.s = b.s THEN NaN ELSE a
    ELSE IF a.k = "inf" THEN a
    ELSE IF b.k = "inf" THEN (IF b.s = 1 THEN NegInfinity ELSE Infinity)
    ELSE Fin(a.v - b.v)

(***************************************************************************)
(* lib/nfz-api.ts: constants.                                              *)
(***************************************************************************)
PROVINCES == {"01", "02", "03", "04", "05", "06", "07", "08",
              "09", "10", "11", "12", "13", "14", "15", "16"}

apiVersion == "1.3"
baseUrl == "https://api.nfz.gov.pl/app-itl-api"

(***************************************************************************)
(* The registry as seen through fetch: what one request can come back      *)
(* with.  A fetch either rejects (network, DNS) or yields a response with  *)
(* a status and a body; a body is undecodable, or JSON that is not an      *)
(* object, or an object with or without an `errors` member.                *)
(***************************************************************************)
NFZError(code, reason, solution) ==
    [code |-> code, reason |-> reason, solution |-> solution]

ErrInvalidProvince == NFZError("4", "invalid province", "use a code 01..16")
ErrMissingField == NFZError("1", "missing required field", "add case")

BodyInvalid == [k |-> "invalid", errors |-> None, data |-> <<>>]
BodyNull == [k |-> "null", errors |-> None, data |-> <<>>]
BodyErrors(errs) == [k |-> "object", errors |-> Some(errs), data |-> <<>>]
BodyData(d) == [k |-> "object", errors |-> None, data |-> d]

ErrorBodies == {BodyErrors(<<>>), BodyErrors(<<ErrInvalidProvince>>),
                BodyErrors(<<ErrInvalidProvince, ErrMissingField>>)}

FetchRejected == [t |-> "reject", status |-> 0, statusText |-> "", body |-> BodyNull]
Response(status, statusText, body) ==
    [t |-> "response", status |-> status, statusText |-> statusText, body |-> body]

\* the outcomes of one request whose successful payload is one of `payloads`
WireOutcomes(payloads) ==
    {FetchRejected}
      \cup {Response(200, "OK", b) :
              b \in {BodyInvalid, BodyNull} \cup ErrorBodies
                      \cup {BodyData(d) : d \in payloads}}
      \cup {Response(400, "Bad Request", BodyErrors(<<ErrInvalidProvince>>)),
            Response(500, "Internal Server Error", BodyInvalid)}

\* Response.ok: the status is in the range 200-299
ok(response) == response.status >= 200 /\ response.status <= 299

\* a status in a template literal
StatusString(status) ==
    CASE status = 200 -> "200"
      [] status = 400 -> "400"
      [] status = 500 -> "500"
      [] OTHER -> "0"

(***************************************************************************)
(* Errors, by constructor name and message parts.                          *)
(***************************************************************************)
Error(message) == [name |-> "Error", message |-> message]
TypeError(message) == [name |-> "TypeError", message |-> message]
SyntaxError(message) == [name |-> "SyntaxError", message |-> message]

(***************************************************************************)
(* NFZApiClient.buildUrl: the api-version first, then every entry of       *)
(* params whose value is not undefined, in entry order.                    *)
(***************************************************************************)
RECURSIVE Defined(_)
Defined(params) ==
    IF params = <<>> THEN <<>>
    ELSE IF Head(params)[2] # UNDEFINED
         THEN <<Head(params)>> \o Defined(Tail(params))
         ELSE Defined(Tail(params))

buildUrl(endpoint, params) ==
    [base |-> baseUrl, endpoint |-> endpoint,
     query |-> <<<<"api-version", apiVersion>>>> \o Defined(params)]

(***************************************************************************)
(* NFZApiClient.request, as the states of one call: "fetch" while the      *)
(* fetch is awaited, "json" while response.json() is awaited, then         *)
(* "resolved" or "rejected".  fetches counts the calls of fetch; wire      *)
(* keeps what the registry sent.                                           *)
(***************************************************************************)
\* the catch block: log and rethrow
requestCatchRetry(c, e) ==
    IF c.fetches < 2
    THEN [c EXCEPT !.pc = "fetch", !.fetches = c.fetches + 1]
    ELSE [c EXCEPT !.pc = "rejected", !.err = Some(e)]

requestCatch(c, e) == [c EXCEPT !.pc = "rejected", !.err = Some(e)]

\* the call up to its first await: the url is built and fetch is called
request(endpoint, params) ==
    [url |-> buildUrl(endpoint, params), pc |-> "fetch", fetches |-> 1,
     wire |-> None, err |-> None, value |-> None]

\* from the settling of fetch to the next await or the end
requestAfterFetch(c, r) ==
    LET seen == [c EXCEPT !.wire = Some(r)] IN
    IF r.t = "reject"
    THEN requestCatch(seen, TypeError(<<"Failed to fetch">>))
    ELSE IF ~ok(r)
    THEN requestCatch(seen, Error(<<"NFZ API request failed: ", StatusString(r.status),
                                    " ", r.statusText>>))
    ELSE [seen EXCEPT !.pc = "json"]

\* from the settling of response.json() to the end
requestAfterJson(c) ==
    LET body == c.wire[1].body IN
    IF body.k = "invalid"
    THEN requestCatch(c, SyntaxError(<<"Unexpected token">>))
    ELSE IF body.k = "null"
    THEN requestCatch(c, TypeError(<<"Cannot use 'in' operator">>))
    ELSE IF body.errors # None
    THEN IF body.errors[1] = <<>>
         THEN requestCatch(c, TypeError(<<"Cannot read properties of undefined">>))
         ELSE requestCatch(c, Error(<<"NFZ API error: ",
                                      body.errors[1][1].reason, " - ",
                                      body.errors[1][1].solution>>))
    ELSE [c EXCEPT !.pc = "resolved", !.value = Some(body)]

(***************************************************************************)
(* The nine operations of NFZApiClient.                                    *)
(***************************************************************************)
getQueues(params) == request(<<"/queues">>, params \o <<<<"format", "json">>>>)

getQueue(id) == request(<<"/queues/", id>>, <<>>)

getManyPlaces(id) == request(<<"/many-places/", id>>, <<>>)

searchBenefits(name, page, limit) ==
    request(<<"/benefits">>, <<<<"name", name>>, <<"page", page>>,
                           <<"limit", limit>>, <<"format", "json">>>>)

searchLocalities(name, prov, page, limit) ==
    request(<<"/localities">>, <<<<"name", name>>, <<"province", prov>>,
                             <<"page", page>>, <<"limit", limit>>,
                             <<"format", "json">>>>)

searchPlaces(name, prov, page, limit) ==
    request(<<"/places">>, <<<<"name", name>>, <<"province", prov>>,
                         <<"page", page>>, <<"limit", limit>>,
                         <<"format", "json">>>>)

searchProviders(name, prov, page, limit) ==
    request(<<"/providers">>, <<<<"name", name>>, <<"province", prov>>,
                            <<"page", page>>, <<"limit", limit>>,
                            <<"format", "json">>>>)

searchStreets(name, prov, page, limit) ==
    request(<<"/streets">>, <<<<"name", name>>, <<"province", prov>>,
                          <<"page", page>>, <<"limit", limit>>,
                          <<"format", "json">>>>)

getApiInfo == request(<<"/version">>, <<>>)

(***************************************************************************)
(* SpecClient: callers of the client.  A call is made with any arguments   *)
(* a caller can pass at run time; the registry answers each request with   *)
(* any of the wire outcomes.                                               *)
(***************************************************************************)
SearchOps == {"searchBenefits", "searchLocalities", "searchPlaces",
              "searchProviders", "searchStreets"}

ClientOps == {"getQueues", "getQueue", "getManyPlaces", "getApiInfo"}
                \cup SearchOps

Input(op, id, name, prov) == [op |-> op, id |-> id, name |-> name, prov |-> prov]

ClientInputs ==
    {Input("getQueues", UNDEFINED, UNDEFINED, p) : p \in {"07", "99"}}
      \cup {Input(o, "q1", UNDEFINED, UNDEFINED) : o \in {"getQueue", "getManyPlaces"}}
      \cup {Input("searchBenefits", UNDEFINED, n, UNDEFINED) : n \in {"ab", "abc"}}
      \cup {Input(o, UNDEFINED, n, p) :
              o \in SearchOps \ {"searchBenefits"}, n \in {"ab", "abc"},
              p \in {UNDEFINED, "07"}}
      \cup {Input("getApiInfo", UNDEFINED, UNDEFINED, UNDEFINED)}

ClientPayloads == {<<>>, <<"PORADNIA KARDIOLOGICZNA">>}

\* the call of the operation named by an input, with the default page and limit
Invoke(i) ==
    CASE i.op = "getQueues" ->
           getQueues(<<<<"case", "1">>, <<"province", i.prov>>>>)
      [] i.op = "getQueue" -> getQueue(i.id)
      [] i.op = "getManyPlaces" -> getManyPlaces(i.id)
      [] i.op = "searchBenefits" -> searchBenefits(i.name, "1", "10")
      [] i.op = "searchLocalities" -> searchLocalities(i.name, i.prov, "1", "10")
      [] i.op = "searchPlaces" -> searchPlaces(i.name, i.prov, "1", "10")
      [] i.op = "searchProviders" -> searchProviders(i.name, i.prov, "1", "10")
      [] i.op = "searchStreets" -> searchStreets(i.name, i.prov, "1", "10")
      [] OTHER -> getApiInfo

ClientCall(i) ==
    /\ Len(calls) < MaxCalls
    /\ calls' = Append(calls, [in |-> i, c |-> Invoke(i)])
    /\ UNCHANGED <<searchVars, analyzerVars, distanceVars, formVars, callbackVars>>

ClientFetchSettles(n, r) ==
    /\ calls[n].c.pc = "fetch"
    /\ calls' = [calls EXCEPT ![n].c = requestAfterFetch(@, r)]
    /\ UNCHANGED <<searchVars, analyzerVars, distanceVars, formVars, callbackVars>>

ClientJsonSettles(n) ==
    /\ calls[n].c.pc = "json"
    /\ calls' = [calls EXCEPT ![n].c = requestAfterJson(@)]
    /\ UNCHANGED <<searchVars, analyzerVars, distanceVars, formVars, callbackVars>>

(***************************************************************************)
(* Queue records.  A date string "YYYY-MM-DD" is kept as its three         *)
(* numbers; a registry record with no applicable date carries null, or an  *)
(* empty string.  Coordinates are in 1/10000 degree.                       *)
(***************************************************************************)
DateString(y, m, d) == [k |-> "str", y |-> y, m |-> m, d |-> d]
DateNull == [k |-> "null", y |-> 0, m |-> 0, d |-> 0]
DateEmpty == [k |-> "empty", y |-> 0, m |-> 0, d |-> 0]

Queue(id, provider, locality, latitude, date) ==
    [id |-> id, provider |-> provider, locality |-> locality,
     latitude |-> latitude, longitude |-> 210122,
     dates |-> [applicable |-> date.k = "str", date |-> date]]

QueuePool ==
    {Queue("a", "SZPITAL BIELANSKI", "WARSZAWA", 522297, DateString(2025, 2, 15)),
     Queue("b", "USK BIALYSTOK", "BIALYSTOK", 531325, DateString(2025, 3, 1)),
     Queue("c", "SZPITAL RYDYGIERA", "KRAKOW", 500647, DateNull),
     Queue("d", "CENTRUM ATTIS", "WARSZAWA", 522297, DateEmpty),
     Queue("e", "SZPITAL MIEJSKI", "OLSZTYN", 537784, DateString(2024, 12, 31))}

Origins == {[lat |-> 522297, lon |-> 210122], [lat |-> 530000, lon |-> 210122]}

Range(s) == {s[i] : i \in DOMAIN s}

\* the sequences of n distinct elements of S
Arrangements(S, n) ==
    {t \in [1..n -> S] : \A i, j \in 1..n : t[i] = t[j] => i = j}

\* the data arrays a registry response can carry
QueueLists == UNION {Arrangements(QueuePool, n) : n \in 0..MaxRecords}

(***************************************************************************)
(* new Date(x).getTime(), in days: a date-only string is UTC midnight of   *)
(* that day (86 400 000 ms per day), null is the epoch, "" is an invalid   *)
(* date.                                                                   *)
(***************************************************************************)
DaysFromCivil(y, m, d) ==
    LET yy == IF m <= 2 THEN y - 1 ELSE y
        era == yy \div 400
        yoe == yy - era * 400
        mp == IF m > 2 THEN m - 3 ELSE m + 9
        doy == (153 * mp + 2) \div 5 + d - 1
        doe == yoe * 365 + yoe \div 4 - yoe \div 100 + doy
    IN era * 146097 + doe - 719468

getTime(date) ==
    CASE date.k = "str" -> Fin(DaysFromCivil(date.y, date.m, date.d))
      [] date.k = "null" -> Fin(0)
      [] OTHER -> NaN

(***************************************************************************)
(* formatDate: "" for a falsy argument, else day, month name (pl-PL,       *)
(* genitive) and year, in a time zone east of Greenwich.                   *)
(***************************************************************************)
MonthName(m) ==
    <<"stycznia", "lutego", "marca", "kwietnia", "maja", "czerwca", "lipca",
      "sierpnia", "wrzesnia", "pazdziernika", "listopada", "grudnia">>[m]

formatDate(date) ==
    IF date.k # "str" THEN <<>> ELSE <<date.d, MonthName(date.m), date.y>>

(***************************************************************************)
(* calculateDistance, in tenths of a kilometre, for two points of one      *)
(* meridian: with dLon = 0 the haversine term a is sin(dLat/2)^2 and       *)
(* c = |dLat| in radians, so the distance is R * |dLat| * pi / 180,        *)
(* i.e. 0.111194927 km per 1/10000 degree, rounded to one decimal.         *)
(***************************************************************************)
Abs(x) == IF x < 0 THEN -x ELSE x

calculateDistance(lat1, lon1, lat2, lon2) ==
    LET dLat == Abs(lat2 - lat1)
    IN (dLat * 11119 + (dLat * 4927) \div 10000 + 50000) \div 100000

(***************************************************************************)
(* Array.prototype.sort with a comparison function.  The sign of the       *)
(* function's result orders two elements, NaN counting as +0.  For a       *)
(* consistent comparison function the sort is stable and its result is     *)
(* unique; for an inconsistent one the order is implementation-defined     *)
(* and any permutation of the array may result.                            *)
(***************************************************************************)
Sign(n) ==
    CASE n.k = "nan" -> 0
      [] n.k = "inf" -> n.s
      [] OTHER -> IF n.v < 0 THEN -1 ELSE IF n.v > 0 THEN 1 ELSE 0

Reorderings(s) == Arrangements(Range(s), Len(s))

compareDateDescending(a, b) == Minus(getTime(b.dates.date), getTime(a.dates.date))

\* the comparison function of the date sort
compareDate(a, b) == Minus(getTime(a.dates.date), getTime(b.dates.date))

\* the comparison function of the distance sort
distanceOrInfinity(r) ==
    IF "distance" \in DOMAIN r /\ r.distance # 0 THEN Fin(r.distance) ELSE Infinity

compareDistance(a, b) == Minus(distanceOrInfinity(a), distanceOrInfinity(b))

ConsistentDate(S) ==
    \A a, b, c \in S :
        LET ab == Sign(compareDate(a, b))
            bc == Sign(compareDate(b, c))
            ac == Sign(compareDate(a, c))
        IN /\ Sign(compareDate(b, a)) = -ab
           /\ (ab = 0 /\ bc = 0) => ac = 0
           /\ (ab < 0 /\ bc < 0) => ac < 0
           /\ (ab > 0 /\ bc > 0) => ac > 0

RECURSIVE InsertByDate(_, _)
InsertByDate(s, x) ==
    IF s = <<>> THEN <<x>>
    ELSE IF Sign(compareDate(s[Len(s)], x)) > 0
         THEN Append(InsertByDate(SubSeq(s, 1, Len(s) - 1), x), s[Len(s)])
         ELSE Append(s, x)

RECURSIVE StableSortByDate(_)
StableSortByDate(s) ==
    IF s = <<>> THEN <<>>
    ELSE InsertByDate(StableSortByDate(SubSeq(s, 1, Len(s) - 1)), s[Len(s)])

RECURSIVE InsertByDistance(_, _)
InsertByDistance(s, x) ==
    IF s = <<>> THEN <<x>>
    ELSE IF Sign(compareDistance(s[Len(s)], x)) > 0
         THEN Append(InsertByDistance(SubSeq(s, 1, Len(s) - 1), x), s[Len(s)])
         ELSE Append(s, x)

RECURSIVE StableSortByDistance(_)
StableSortByDistance(s) ==
    IF s = <<>> THEN <<>>
    ELSE InsertByDistance(StableSortByDistance(SubSeq(s, 1, Len(s) - 1)),
                          s[Len(s)])

\* facilitiesFound.sort(by date): the arrays the sort can leave
sortByDate(s) ==
    IF ConsistentDate(Range(s)) THEN {StableSortByDate(s)} ELSE Reorderings(s)

\* facilitiesFound.map(facility => ({...facility, distance}))
annotateDistance(s, origin) ==
    [i \in DOMAIN s |->
        [id |-> s[i].id, provider |-> s[i].provider, locality |-> s[i].locality,
         latitude |-> s[i].latitude, longitude |-> s[i].longitude,
         dates |-> s[i].dates,
         distance |-> calculateDistance(origin.lat, origin.lon,
                                        s[i].latitude, s[i].longitude)]]

\* facilitiesFound.sort(by distance); its comparison function is consistent
sortByDistance(s) == StableSortByDistance(s)

\* the ranked array for a date-sorted array and the location of the closure
rank(sorted, location) ==
    IF location # None
    THEN sortByDistance(annotateDistance(sorted, location[1]))
    ELSE sorted

summarizeLast(facilities) ==
    [text |-> "Znaleziono n placowek. Najblizszy termin: d w f (l).",
     count |-> Len(facilities),
     earliestDate |-> formatDate(facilities[Len(facilities)].dates.date),
     nearestFacility |-> facilities[Len(facilities)].provider,
     nearestLocation |-> facilities[Len(facilities)].locality]

\* the summary sentence, by its variable parts
summarize(facilities) ==
    [text |-> "Znaleziono n placowek. Najblizszy termin: d w f (l).",
     count |-> Len(facilities),
     earliestDate |-> formatDate(facilities[1].dates.date),
     nearestFacility |-> facilities[1].provider,
     nearestLocation |-> facilities[1].locality]

NoResultsSummary ==
    [text |-> "Nie znaleziono placowek dla podanych kryteriow.",
     count |-> 0, earliestDate |-> <<>>, nearestFacility |-> "",
     nearestLocation |-> ""]

SearchFailedMessage == "Wystapil blad podczas wyszukiwania placowek."
LocationDeniedMessage ==
    "Nie mozna uzyskac lokalizacji. Prosze zezwolic na dostep do lokalizacji."
NoProvinceMessage == "Prosze wybrac wojewodztwo"

(***************************************************************************)
(* Spec: the NFZSearch component.  A searchFacilities invocation runs up   *)
(* to its await of getQueues and is kept in inflight with the values its   *)
(* closure captured (the userLocation of the render that was clicked);     *)
(* when its request settles, the rest of the function runs in one step,    *)
(* before any other event.                                                 *)
(***************************************************************************)
\* newest: how the most recently started search ended ("none" while it is in
\* flight), the data array the registry sent, the userLocation its closure
\* held and whether userLocation was set when the response was processed
NoOutcome == [outcome |-> "none", data |-> <<>>, location |-> None, located |-> FALSE]

Outcome(kind, data, location) ==
    [outcome |-> kind, data |-> data, location |-> location,
     located |-> userLocation # None]

\* the search button: disabled={loading}
searchButtonEnabledAlways == TRUE

searchButtonEnabledIfLocated == ~loading /\ userLocation # None

searchButtonEnabledOnError == ~loading \/ error # None

searchButtonEnabled == ~loading

\* the mount effect: getCurrentPosition succeeds
GeolocationSuccess(position) ==
    /\ geo = "pending"
    /\ geo' = "located"
    /\ userLocation' = Some(position)
    /\ UNCHANGED <<calls, province, results, loading, error, summary,
                   inflight, responseData, started, newest>>
    /\ UNCHANGED <<analyzerVars, distanceVars, formVars, callbackVars>>

\* the mount effect: getCurrentPosition fails or is denied
GeolocationError ==
    /\ geo = "pending"
    /\ geo' = "failed"
    /\ error' = Some(LocationDeniedMessage)
    /\ UNCHANGED <<calls, userLocation, province, results, loading, summary,
                   inflight, responseData, started, newest>>
    /\ UNCHANGED <<analyzerVars, distanceVars, formVars, callbackVars>>

\* searchFacilities up to its await
SearchFacilities ==
    /\ searchButtonEnabled
    /\ started < MaxSearches
    /\ IF province = ""
       THEN /\ error' = Some(NoProvinceMessage)
            /\ UNCHANGED <<loading, summary, inflight, started, newest>>
       ELSE /\ loading' = TRUE
            /\ error' = None
            /\ summary' = None
            /\ started' = started + 1
            /\ newest' = NoOutcome
            /\ inflight' = inflight \cup
                 {[id |-> started + 1,
                   location |-> userLocation,
                   c |-> getQueues(<<<<"case", "1">>, <<"province", province>>,
                                     <<"limit", "25">>>>)]}
    /\ UNCHANGED <<calls, userLocation, province, results, geo, responseData>>
    /\ UNCHANGED <<analyzerVars, distanceVars, formVars, callbackVars>>

\* delivered before onResultsFound has been called
NotCalled == [search |-> 0, times |-> 0, results |-> <<>>]

callOnResultsFoundTwice(s, facilitiesFound) ==
    IF onResultsFound
    THEN [search |-> s.id, times |-> 2, results |-> facilitiesFound]
    ELSE delivered

\* if (onResultsFound) onResultsFound(facilitiesFound), in search s
callOnResultsFound(s, facilitiesFound) ==
    IF onResultsFound
    THEN [search |-> s.id,
          times |-> IF delivered.search = s.id THEN delivered.times + 1 ELSE 1,
          results |-> facilitiesFound]
    ELSE delivered

searchFacilitiesResumeNoFinally(s, c) ==
    /\ inflight' = inflight \ {s}
    /\ loading' = (c.pc = "rejected")
    /\ IF c.pc = "rejected"
       THEN /\ error' = Some(SearchFailedMessage)
            /\ newest' = IF s.id = started
                         THEN Outcome("failed", <<>>, s.location) ELSE newest
            /\ UNCHANGED <<results, summary, responseData, delivered>>
       ELSE LET data == c.value[1].data IN
            IF Len(data) = 0
            THEN /\ summary' = Some(NoResultsSummary)
                 /\ results' = <<>>
                 /\ responseData' = data
                 /\ newest' = IF s.id = started
                              THEN Outcome("empty", data, s.location) ELSE newest
                 /\ UNCHANGED <<error, delivered>>
            ELSE \E sorted \in sortByDate(data) :
                   LET facilitiesFound == rank(sorted, s.location) IN
                   /\ responseData' = sorted
                   /\ results' = facilitiesFound
                   /\ summary' = Some(summarize(facilitiesFound))
                   /\ newest' = IF s.id = started
                                THEN Outcome("ok", data, s.location) ELSE newest
                   /\ delivered' = callOnResultsFound(s, facilitiesFound)
                   /\ UNCHANGED error
    /\ UNCHANGED <<calls, userLocation, province, geo, started>>
    /\ UNCHANGED <<analyzerVars, distanceVars, formVars, onResultsFound>>

\* searchFacilities from its await to its end, for the settled call c
searchFacilitiesResume(s, c) ==
    /\ inflight' = inflight \ {s}
    /\ loading' = FALSE
    /\ IF c.pc = "rejected"
       THEN /\ error' = Some(SearchFailedMessage)
            /\ newest' = IF s.id = started
                         THEN Outcome("failed", <<>>, s.location) ELSE newest
            /\ UNCHANGED <<results, summary, responseData, delivered>>
       ELSE LET data == c.value[1].data IN
            IF Len(data) = 0
            THEN /\ summary' = Some(NoResultsSummary)
                 /\ results' = <<>>
                 /\ responseData' = data
                 /\ newest' = IF s.id = started
                              THEN Outcome("empty", data, s.location) ELSE newest
                 /\ UNCHANGED <<error, delivered>>
            ELSE \E sorted \in sortByDate(data) :
                   LET facilitiesFound == rank(sorted, s.location) IN
                   /\ responseData' = sorted
                   /\ results' = facilitiesFound
                   /\ summary' = Some(summarize(facilitiesFound))
                   /\ newest' = IF s.id = started
                                THEN Outcome("ok", data, s.location) ELSE newest
                   /\ delivered' = callOnResultsFound(s, facilitiesFound)
                   /\ UNCHANGED error
    /\ UNCHANGED <<calls, userLocation, province, geo, started>>
    /\ UNCHANGED <<analyzerVars, distanceVars, formVars, onResultsFound>>

\* a step of the getQueues call of search s, then the search if it settled
SearchAdvance(s, c) ==
    IF c.pc \in {"resolved", "rejected"}
    THEN searchFacilitiesResume(s, c)
    ELSE /\ inflight' = (inflight \ {s}) \cup {[s EXCEPT !.c = c]}
         /\ UNCHANGED <<calls, userLocation, province, results, loading, error,
                        summary, geo, responseData, started, newest>>
         /\ UNCHANGED <<analyzerVars, distanceVars, formVars, callbackVars>>

SearchFetchSettles(s, r) ==
    /\ s.c.pc = "fetch"
    /\ SearchAdvance(s, requestAfterFetch(s.c, r))

SearchJsonSettles(s) ==
    /\ s.c.pc = "json"
    /\ SearchAdvance(s, requestAfterJson(s.c))

(***************************************************************************)
(* Strings.  A string is a sequence of characters, a character is a        *)
(* one-letter TLA+ string or the name of a character that has none         *)
(* ("LF", "TAB", "e_ogonek", ...).  Indices into strings are the 0-based    *)
(* indices of JavaScript.                                                  *)
(***************************************************************************)
UpperCase ==
    <<"A", "B", "C", "D", "E", "F", "G", "H", "I", "J", "K", "L", "M", "N",
      "O", "P", "Q", "R", "S", "T", "U", "V", "W", "X", "Y", "Z",
      "E_ogonek", "L_stroke", "O_acute", "Z_dot", "A_ring">>

LowerCase ==
    <<"a", "b", "c", "d", "e", "f", "g", "h", "i", "j", "k", "l", "m", "n",
      "o", "p", "q", "r", "s", "t", "u", "v", "w", "x", "y", "z",
      "e_ogonek", "l_stroke", "o_acute", "z_dot", "a_ring">>

MapCharacter(from, to, c) ==
    IF \E i \in DOMAIN from : from[i] = c
    THEN to[CHOOSE i \in DOMAIN from : from[i] = c]
    ELSE c

toLowerCase(text) == [i \in DOMAIN text |-> MapCharacter(UpperCase, LowerCase, text[i])]

toUpperCase(text) == [i \in DOMAIN text |-> MapCharacter(LowerCase, UpperCase, text[i])]

\* the whitespace character class of a regular expression
Whitespace == {" ", "LF", "TAB"}

\* the punctuation character class of the first replace
Punctuation ==
    {".", ",", "/", "#", "!", "$", "%", "^", "&", "*", ";", ":", "{", "}",
     "=", "-", "_", "backtick", "~", "(", ")"}

\* text.replace(punctuation, " "), every occurrence
replacePunctuation(text) ==
    [i \in DOMAIN text |-> IF text[i] \in Punctuation THEN " " ELSE text[i]]

\* the last index of the run of whitespace that starts at index i (1-based)
RECURSIVE RunEnd(_, _)
RunEnd(text, i) ==
    IF i < Len(text) /\ text[i + 1] \in Whitespace THEN RunEnd(text, i + 1) ELSE i

\* text.replace(two or more whitespace characters, " "), every occurrence,
\* from the 1-based index i on
RECURSIVE collapseFrom(_, _)
collapseFrom(text, i) ==
    IF i > Len(text) THEN <<>>
    ELSE IF text[i] \in Whitespace /\ RunEnd(text, i) > i
         THEN <<" ">> \o collapseFrom(text, RunEnd(text, i) + 1)
         ELSE <<text[i]>> \o collapseFrom(text, i + 1)

collapseWhitespace(text) == collapseFrom(text, 1)

\* does needle occur in text at the 0-based index at
MatchesAt(text, needle, at) ==
    /\ at >= 0
    /\ at + Len(needle) <= Len(text)
    /\ \A j \in 1..Len(needle) : text[at + j] = needle[j]

Max(a, b) == IF a > b THEN a ELSE b

Min(a, b) == IF a < b THEN a ELSE b

\* text.indexOf(needle, from)
indexOf(text, needle, from) ==
    LET hits == {at \in Max(from, 0)..Len(text) : MatchesAt(text, needle, at)}
    IN  IF hits = {} THEN 0 - 1
        ELSE CHOOSE at \in hits : \A other \in hits : at <= other

\* text.lastIndexOf(needle, from)
lastIndexOf(text, needle, from) ==
    LET hits == {at \in 0..Min(from, Len(text)) : MatchesAt(text, needle, at)}
    IN  IF hits = {} THEN 0 - 1
        ELSE CHOOSE at \in hits : \A other \in hits : at >= other

\* text.includes(needle)
includes(text, needle) == indexOf(text, needle, 0) >= 0

\* text.substring(start, end); end is None for undefined
substring(text, start, end) ==
    LET clamp(n) == Max(0, Min(n, Len(text)))
        from == clamp(start)
        to == IF end = None THEN Len(text) ELSE clamp(end[1])
    IN  SubSeq(text, Min(from, to) + 1, Max(from, to))

\* text.split(" "), from 0-based index from on
RECURSIVE splitFrom(_, _)
splitFrom(text, from) ==
    LET at == indexOf(text, <<" ">>, from)
    IN  IF at < 0 THEN <<substring(text, from, None)>>
        ELSE <<substring(text, from, Some(at))>> \o splitFrom(text, at + 1)

split(text) == splitFrom(text, 0)

(***************************************************************************)
(* parseReferral.                                                          *)
(***************************************************************************)
stopWords ==
    <<<<"i">>, <<"d", "o">>, <<"n", "a">>, <<"w">>,
      <<"z">>, <<"d", "l", "a">>, <<"o", "d">>, <<"p", "r", "z", "e", "z">>>>

benefitKeywords ==
    <<<<"p", "o", "r", "a", "d", "n", "i", "a">>,
      <<"o", "d", "d", "z", "i", "a", "A_ring", "low9quote">>,
      <<"p", "r", "a", "c", "o", "w", "n", "i", "a">>,
      <<"r", "e", "h", "a", "b", "i", "l", "i", "t", "a", "c", "j", "a">>>>

normalize(text) == collapseWhitespace(replacePunctuation(toLowerCase(text)))

isKeyword(word) == Len(word) > 2 /\ ~(\E i \in DOMAIN stopWords : stopWords[i] = word)

\* the phrase of the normalized text around its first occurrence of keyword
phraseAround(normalizedText, keyword) ==
    LET index == indexOf(normalizedText, keyword, 0)
        start == lastIndexOf(normalizedText, <<" ">>, index) + 1
        end == indexOf(normalizedText, <<" ">>, index + Len(keyword))
    IN  substring(normalizedText, start, IF end > 0 THEN Some(end) ELSE None)

\* the loop over benefitKeywords: the first keyword of the list that the
\* text includes decides, and the loop breaks
extractBenefit(normalizedText) ==
    LET found == {k \in DOMAIN benefitKeywords :
                     includes(normalizedText, benefitKeywords[k])}
    IN  IF found = {} THEN <<>>
        ELSE phraseAround(normalizedText,
                 benefitKeywords[CHOOSE k \in found : \A other \in found : k <= other])

parseReferral(text) ==
    LET normalizedText == normalize(text)
        words == split(normalizedText)
    IN  [benefit |-> extractBenefit(normalizedText),
         keywords |-> SelectSeq(words, isKeyword)]

(***************************************************************************)
(* The referral texts the analyzer is run on: the text of the              *)
(* example of the specification, and every text of at most MaxPieces       *)
(* pieces.                                                                 *)
(***************************************************************************)
MaxPieces == 3

ExampleReferral ==
    <<"P", "r", "o", "s", "z", "e_ogonek", " ", "o", " ", "s", "k", "i",
      "e", "r", "o", "w", "a", "n", "i", "e", " ", "d", "o", " ", "p", "o",
      "r", "a", "d", "n", "i", " ", "k", "a", "r", "d", "i", "o", "l", "o",
      "g", "i", "c", "z", "n", "e", "j">>

Pieces ==
    {<<"p", "o", "r", "a", "d", "n", "i", "a">>,
     <<"r", "e", "h", "a", "b", "i", "l", "i", "t", "a", "c", "j", "a">>,
     <<"d", "l", "a">>,
     <<"d", "o">>,
     <<"K", "a", "r", "d", "i", "o">>,
     <<" ">>,
     <<"LF">>,
     <<",">>}

RECURSIVE TextsOf(_)
TextsOf(n) ==
    IF n = 0 THEN {<<>>}
    ELSE LET shorter == TextsOf(n - 1)
         IN  shorter \cup {t \o piece : t \in shorter, piece \in Pieces}

Texts == TextsOf(MaxPieces) \cup {ExampleReferral}

Analyze ==
    /\ analysis = None
    /\ analysis' = Some(parseReferral(referral))
    /\ UNCHANGED <<referral, calls, searchVars, distanceVars, formVars, callbackVars>>

AnalyzerIdle == referral = <<>> /\ analysis = None

(***************************************************************************)
(* calculateDistance for two arbitrary points, the formula as written.     *)
(* A number is a fixed-point integer of Scale units per 1; degrees are     *)
(* whole.  Every operation rounds to the nearest representable number,     *)
(* ties away from zero, so that like the floating-point operations of the  *)
(* platform it commutes with negation; Math.sin, Math.cos and Math.atan2   *)
(* are their power series, Math.sqrt the nearest root.  The result is in   *)
(* tenths of a kilometre.                                                  *)
(***************************************************************************)
Scale == 10000

PI == 31416

R == 6371

\* p / q for q > 0, rounded
RoundDiv(p, q) ==
    IF p >= 0 THEN (p + q \div 2) \div q ELSE 0 - (((0 - p) + q \div 2) \div q)

\* x * y
mul(x, y) == RoundDiv(x * y, Scale)

\* deg * (Math.PI / 180)
deg2rad(deg) == RoundDiv(deg * PI, 180)

\* term + the terms after it of an alternating series in x2 = x * x whose
\* k-th ratio is -x2 / (n * (n + 1)); it ends when the terms vanish
RECURSIVE Series(_, _, _)
Series(x2, term, n) ==
    IF term = 0 THEN 0
    ELSE term + Series(x2, 0 - RoundDiv(mul(term, x2), n * (n + 1)), n + 2)

sin(x) == Series(mul(x, x), x, 2)

cos(x) == Series(mul(x, x), Scale, 1)

\* the greatest root of at most n between lo and hi, for n >= 0
RECURSIVE RootBetween(_, _, _)
RootBetween(n, lo, hi) ==
    IF lo >= hi THEN lo
    ELSE LET mid == (lo + hi + 1) \div 2
         IN  IF mid * mid <= n THEN RootBetween(n, mid, hi)
             ELSE RootBetween(n, lo, mid - 1)

sqrt(x) ==
    LET n == x * Scale
        floor == RootBetween(n, 0, 2 * Scale)
    IN  IF n - floor * floor > floor THEN floor + 1 ELSE floor

\* t + the terms after it of the arc tangent series, t2 = t * t
RECURSIVE ArcSeries(_, _, _)
ArcSeries(t2, power, n) ==
    IF power = 0 THEN 0
    ELSE RoundDiv(power, n) + ArcSeries(t2, 0 - mul(power, t2), n + 2)

\* the arc tangent of t for 0 <= t <= 1; above tan(PI / 8) the argument is
\* reduced by atan(t) = PI / 4 + atan((t - 1) / (t + 1))
atan(t) ==
    IF t > RoundDiv(4142 * Scale, 10000)
    THEN LET reduced == RoundDiv((t - Scale) * Scale, t + Scale)
         IN  RoundDiv(PI, 4) + ArcSeries(mul(reduced, reduced), reduced, 1)
    ELSE ArcSeries(mul(t, t), t, 1)

\* Math.atan2(y, x) for y >= 0 and x >= 0
atan2(y, x) ==
    IF y = 0 THEN 0
    ELSE IF x >= y THEN atan(RoundDiv(y * Scale, x))
    ELSE RoundDiv(PI, 2) - atan(RoundDiv(x * Scale, y))

haversineLopsided(lat1, lon1, lat2, lon2) ==
    LET dLat == deg2rad(lat2 - lat1)
        dLon == deg2rad(lon2 - lon1)
        a == mul(sin(RoundDiv(dLat, 2)), sin(RoundDiv(dLat, 2)))
             + mul(mul(mul(cos(deg2rad(lat1)), cos(deg2rad(lat1))),
                       sin(RoundDiv(dLon, 2))), sin(RoundDiv(dLon, 2)))
        c == 2 * atan2(sqrt(a), sqrt(Scale - a))
    IN  RoundDiv(R * c * 10, Scale)

haversine(lat1, lon1, lat2, lon2) ==
    LET dLat == deg2rad(lat2 - lat1)
        dLon == deg2rad(lon2 - lon1)
        a == mul(sin(RoundDiv(dLat, 2)), sin(RoundDiv(dLat, 2)))
             + mul(mul(mul(cos(deg2rad(lat1)), cos(deg2rad(lat2))),
                       sin(RoundDiv(dLon, 2))), sin(RoundDiv(dLon, 2)))
        c == 2 * atan2(sqrt(a), sqrt(Scale - a))
        distance == R * c
    IN  RoundDiv(distance * 10, Scale)

(***************************************************************************)
(* The coordinates distances are measured between: a grid of whole         *)
(* degrees around the equator and the prime meridian.                      *)
(***************************************************************************)
GridSteps == 2

Latitudes == {26 * k : k \in (0 - GridSteps)..GridSteps}

Longitudes == {21 * k : k \in (0 - GridSteps)..GridSteps}

Coordinates == [lat : Latitudes, lon : Longitudes]

Measure ==
    /\ measured = None
    /\ measured' =
          Some([there |-> haversine(points.from.lat, points.from.lon,
                                    points.to.lat, points.to.lon),
                back |-> haversine(points.to.lat, points.to.lon,
                                   points.from.lat, points.from.lon)])
    /\ UNCHANGED <<points, calls, searchVars, analyzerVars, formVars, callbackVars>>

DistanceIdle ==
    /\ points = [from |-> [lat |-> 0, lon |-> 0], to |-> [lat |-> 0, lon |-> 0]]
    /\ measured = None

(***************************************************************************)
(* The benefit form of NFZSearch: the referral box, the benefit select,    *)
(* the custom benefit input and the suggestion lookups of fetchBenefits.   *)
(***************************************************************************)
MaxLookups == 2      \* fetchBenefits invocations per behaviour of SpecForm

\* Object.keys(COMMON_BENEFITS), in insertion order
CommonBenefitKeys ==
    <<<<"P", "O", "R", "A", "D", "N", "I", "A", " ", "K", "A", "R", "D",
        "I", "O", "L", "O", "G", "I", "C", "Z", "N", "A">>,
      <<"P", "O", "R", "A", "D", "N", "I", "A", " ", "O", "K", "U", "L",
        "I", "S", "T", "Y", "C", "Z", "N", "A">>,
      <<"P", "O", "R", "A", "D", "N", "I", "A", " ", "N", "E", "U", "R",
        "O", "L", "O", "G", "I", "C", "Z", "N", "A">>,
      <<"P", "O", "R", "A", "D", "N", "I", "A", " ", "O", "R", "T", "O",
        "P", "E", "D", "Y", "C", "Z", "N", "A">>,
      <<"P", "O", "R", "A", "D", "N", "I", "A", " ", "G", "I", "N", "E",
        "K", "O", "L", "O", "G", "I", "C", "Z", "N", "O", "-", "P", "O",
        "L_stroke", "O", "Z_dot", "N", "I", "C", "Z", "A">>,
      <<"P", "O", "R", "A", "D", "N", "I", "A", " ", "U", "R", "O", "L",
        "O", "G", "I", "C", "Z", "N", "A">>,
      <<"P", "O", "R", "A", "D", "N", "I", "A", " ", "C", "H", "I", "R",
        "U", "R", "G", "I", "I", " ", "O", "G", "O_acute", "L", "N", "E",
        "J">>,
      <<"P", "O", "R", "A", "D", "N", "I", "A", " ", "O", "T", "O", "L",
        "A", "R", "Y", "N", "G", "O", "L", "O", "G", "I", "C", "Z", "N",
        "A">>,
      <<"P", "O", "R", "A", "D", "N", "I", "A", " ", "D", "E", "R", "M",
        "A", "T", "O", "L", "O", "G", "I", "C", "Z", "N", "A">>,
      <<"P", "O", "R", "A", "D", "N", "I", "A", " ", "E", "N", "D", "O",
        "K", "R", "Y", "N", "O", "L", "O", "G", "I", "C", "Z", "N", "A">>,
      <<"P", "O", "R", "A", "D", "N", "I", "A", " ", "D", "I", "A", "B",
        "E", "T", "O", "L", "O", "G", "I", "C", "Z", "N", "A">>,
      <<"P", "O", "R", "A", "D", "N", "I", "A", " ", "G", "A", "S", "T",
        "R", "O", "E", "N", "T", "E", "R", "O", "L", "O", "G", "I", "C",
        "Z", "N", "A">>,
      <<"P", "O", "R", "A", "D", "N", "I", "A", " ", "R", "E", "U", "M",
        "A", "T", "O", "L", "O", "G", "I", "C", "Z", "N", "A">>,
      <<"P", "O", "R", "A", "D", "N", "I", "A", " ", "P", "U", "L", "M",
        "O", "N", "O", "L", "O", "G", "I", "C", "Z", "N", "A">>,
      <<"P", "O", "R", "A", "D", "N", "I", "A", " ", "Z", "D", "R", "O",
        "W", "I", "A", " ", "P", "S", "Y", "C", "H", "I", "C", "Z", "N",
        "E", "G", "O">>,
      <<"O", "D", "D", "Z", "I", "A", "L_stroke", " ", "C", "H", "O", "R",
        "O_acute", "B", " ", "W", "E", "W", "N", "E_ogonek", "T", "R", "Z",
        "N", "Y", "C", "H">>,
      <<"O", "D", "D", "Z", "I", "A", "L_stroke", " ", "K", "A", "R", "D",
        "I", "O", "L", "O", "G", "I", "C", "Z", "N", "Y">>,
      <<"R", "E", "H", "A", "B", "I", "L", "I", "T", "A", "C", "J", "A",
        " ", "K", "A", "R", "D", "I", "O", "L", "O", "G", "I", "C", "Z",
        "N", "A">>,
      <<"O", "D", "D", "Z", "I", "A", "L_stroke", " ", "C", "H", "I", "R",
        "U", "R", "G", "I", "I", " ", "O", "G", "O_acute", "L", "N", "E",
        "J">>,
      <<"O", "D", "D", "Z", "I", "A", "L_stroke", " ", "O", "R", "T", "O",
        "P", "E", "D", "Y", "C", "Z", "N", "Y">>,
      <<"T", "O", "M", "O", "G", "R", "A", "F", "I", "A", " ", "K", "O",
        "M", "P", "U", "T", "E", "R", "O", "W", "A">>,
      <<"R", "E", "Z", "O", "N", "A", "N", "S", " ", "M", "A", "G", "N",
        "E", "T", "Y", "C", "Z", "N", "Y">>,
      <<"B", "A", "D", "A", "N", "I", "A", " ", "E", "N", "D", "O", "S",
        "K", "O", "P", "O", "W", "E", " ", "P", "R", "Z", "E", "W", "O",
        "D", "U", " ", "P", "O", "K", "A", "R", "M", "O", "W", "E", "G",
        "O", " ", "-", " ", "G", "A", "S", "T", "R", "O", "S", "K", "O",
        "P", "I", "A">>,
      <<"B", "A", "D", "A", "N", "I", "A", " ", "E", "N", "D", "O", "S",
        "K", "O", "P", "O", "W", "E", " ", "P", "R", "Z", "E", "W", "O",
        "D", "U", " ", "P", "O", "K", "A", "R", "M", "O", "W", "E", "G",
        "O", " ", "-", " ", "K", "O", "L", "O", "N", "O", "S", "K", "O",
        "P", "I", "A">>,
      <<"P", "O", "R", "A", "D", "N", "I", "A", " ", "S", "T", "O", "M",
        "A", "T", "O", "L", "O", "G", "I", "C", "Z", "N", "A">>>>

\* a character sequence as one string, for a query parameter
RECURSIVE String(_)
String(chars) == IF chars = <<>> THEN "" ELSE Head(chars) \o String(Tail(chars))

\* Object.keys(COMMON_BENEFITS).find(benefitKey =>
\*     benefitKey.toLowerCase().includes(benefit.toLowerCase()))
findCommonBenefit(benefit) ==
    LET found == {k \in DOMAIN CommonBenefitKeys :
                     includes(toLowerCase(CommonBenefitKeys[k]), toLowerCase(benefit))}
    IN  IF found = {} THEN None
        ELSE Some(CommonBenefitKeys[CHOOSE k \in found : \A other \in found : k <= other])

\* the texts typed into the referral box and into the custom benefit input,
\* and the suggestion lists the registry answers with
ReferralInputs ==
    {<<"s", "k", "i", "e", "r", "o", "w", "a", "n", "i", "e", " ", "p",
       "o", "r", "a", "d", "n", "i", "a">>,
     <<"p", "r", "a", "c", "o", "w", "n", "i", "a", " ", "r", "t", "g">>,
     <<"p", "o", "r", "a", "d", "n", "i", "a">>,
     <<"b", "a", "d", "a", "n", "i", "e", " ", "k", "r", "w", "i", " ",
       "p", "i", "l", "n", "e">>}

CustomInputs ==
    {<<"R", "E">>,
     <<"R", "E", "Z", "O", "N", "A", "N", "S">>}

BenefitLists ==
    {<<>>,
     <<<<"R", "E", "Z", "O", "N", "A", "N", "S", " ", "M", "A", "G", "N",
         "E", "T", "Y", "C", "Z", "N", "Y">>>>}

\* parseReferral(value) and the find over COMMON_BENEFITS for its benefit,
\* for every text of ReferralInputs
parsedInputs == [value \in ReferralInputs |-> parseReferral(value)]

matchedInputs ==
    [value \in ReferralInputs |-> findCommonBenefit(parsedInputs[value].benefit)]

\* newestLookup: how the most recently issued lookup ended ("none" while it
\* is in flight) and the list the registry sent for it
NoLookup == [outcome |-> "none", data |-> <<>>]

formFrame == <<calls, userLocation, results, loading, error, summary, geo,
               inflight, responseData, started, newest, analyzerVars, distanceVars,
               callbackVars>>

\* fetchBenefits up to its await
fetchBenefits(searchTerm) ==
    /\ issued < MaxLookups
    /\ loadingBenefits' = TRUE
    /\ issued' = issued + 1
    /\ newestLookup' = NoLookup
    /\ lookups' = lookups \cup
         {[id |-> issued + 1, c |-> searchBenefits(String(searchTerm), "1", "25")]}
    /\ UNCHANGED availableBenefits

\* fetchBenefits from its await to its end, for the settled call c
fetchBenefitsResume(l, c) ==
    /\ lookups' = lookups \ {l}
    /\ loadingBenefits' = FALSE
    /\ IF c.pc = "rejected"
       THEN /\ UNCHANGED availableBenefits
            /\ newestLookup' = IF l.id = issued
                               THEN [outcome |-> "failed", data |-> <<>>]
                               ELSE newestLookup
       ELSE /\ availableBenefits' = c.value[1].data
            /\ newestLookup' = IF l.id = issued
                               THEN [outcome |-> "ok", data |-> c.value[1].data]
                               ELSE newestLookup
    /\ UNCHANGED <<referralText, selectedBenefit, customBenefit, useCustomBenefit,
                   issued, province, formFrame>>

\* a step of the searchBenefits call of lookup l, then the lookup if it settled
LookupAdvance(l, c) ==
    IF c.pc \in {"resolved", "rejected"}
    THEN fetchBenefitsResume(l, c)
    ELSE /\ lookups' = (lookups \ {l}) \cup {[l EXCEPT !.c = c]}
         /\ UNCHANGED <<referralText, selectedBenefit, customBenefit,
                        useCustomBenefit, availableBenefits, loadingBenefits,
                        issued, newestLookup, province, formFrame>>

LookupFetchSettles(l, r) ==
    /\ l.c.pc = "fetch"
    /\ LookupAdvance(l, requestAfterFetch(l.c, r))

LookupJsonSettles(l) ==
    /\ l.c.pc = "json"
    /\ LookupAdvance(l, requestAfterJson(l.c))

handleReferralChange(value) ==
    /\ value # referralText
    /\ referralText' = value
    /\ LET parsed == parsedInputs[value]
           matchedBenefit == matchedInputs[value]
           idle == UNCHANGED <<availableBenefits, loadingBenefits, lookups,
                               issued, newestLookup>>
       IN  IF Len(value) > 10 /\ parsed.benefit # <<>>
           THEN IF matchedBenefit # None
                THEN /\ selectedBenefit' = matchedBenefit[1]
                     /\ useCustomBenefit' = FALSE
                     /\ UNCHANGED customBenefit
                     /\ idle
                ELSE /\ customBenefit' = toUpperCase(parsed.benefit)
                     /\ useCustomBenefit' = TRUE
                     /\ UNCHANGED selectedBenefit
                     /\ IF Len(parsed.benefit) >= 3
                        THEN fetchBenefits(parsed.benefit)
                        ELSE idle
           ELSE /\ UNCHANGED <<selectedBenefit, customBenefit, useCustomBenefit>>
                /\ idle
    /\ UNCHANGED <<province, formFrame>>

\* the province select, and the effect that follows the change
handleProvinceChange(code) ==
    /\ code # province
    /\ province' = code
    /\ fetchBenefits(<<"p", "o", "r", "a", "d", "n", "i", "a">>)
    /\ UNCHANGED <<referralText, selectedBenefit, customBenefit, useCustomBenefit,
                   formFrame>>

\* the custom benefit input is rendered while useCustomBenefit holds
handleCustomBenefitChange(value) ==
    /\ useCustomBenefit
    /\ value # customBenefit
    /\ customBenefit' = value
    /\ IF Len(value) >= 3
       THEN fetchBenefits(value)
       ELSE UNCHANGED <<availableBenefits, loadingBenefits, lookups, issued,
                        newestLookup>>
    /\ UNCHANGED <<referralText, selectedBenefit, useCustomBenefit, province,
                   formFrame>>

toggleCustomBenefit ==
    /\ useCustomBenefit' = ~useCustomBenefit
    /\ UNCHANGED <<referralText, selectedBenefit, customBenefit, availableBenefits,
                   loadingBenefits, lookups, issued, newestLookup, province,
                   formFrame>>

\* the page renders NFZSearch without the onResultsFound prop
CallbackIdle == onResultsFound = FALSE /\ delivered = NotCalled

FormIdle ==
    /\ referralText = <<>>
    /\ selectedBenefit = <<>>
    /\ customBenefit = <<>>
    /\ useCustomBenefit = FALSE
    /\ availableBenefits = <<>>
    /\ loadingBenefits = FALSE
    /\ lookups = {}
    /\ issued = 0
    /\ newestLookup = NoLookup

(***************************************************************************)
(* The specifications.                                                     *)
(***************************************************************************)
Init ==
    /\ calls = <<>>
    /\ userLocation = None
    /\ province = "07"
    /\ results = <<>>
    /\ loading = FALSE
    /\ error = None
    /\ summary = None
    /\ geo \in {"pending", "unsupported"}
    /\ inflight = {}
    /\ responseData = <<>>
    /\ started = 0
    /\ newest = NoOutcome
    /\ AnalyzerIdle
    /\ DistanceIdle
    /\ FormIdle
    /\ CallbackIdle

Next ==
    \/ \E position \in Origins : GeolocationSuccess(position)
    \/ GeolocationError
    \/ SearchFacilities
    \/ \E s \in inflight : \E r \in WireOutcomes(QueueLists) : SearchFetchSettles(s, r)
    \/ \E s \in inflight : SearchJsonSettles(s)

Spec == Init /\ [][Next]_vars

InitClient == Init /\ geo = "unsupported"

NextClient ==
    \/ \E i \in ClientInputs : ClientCall(i)
    \/ \E n \in DOMAIN calls : \E r \in WireOutcomes(ClientPayloads) :
          ClientFetchSettles(n, r)
    \/ \E n \in DOMAIN calls : ClientJsonSettles(n)

SpecClient == InitClient /\ [][NextClient]_vars

\* the component at rest: no geolocation, nothing searched
SearchIdle ==
    /\ calls = <<>>
    /\ userLocation = None
    /\ province = "07"
    /\ results = <<>>
    /\ loading = FALSE
    /\ error = None
    /\ summary = None
    /\ geo = "unsupported"
    /\ inflight = {}
    /\ responseData = <<>>
    /\ started = 0
    /\ newest = NoOutcome

\* parseReferral on every text of Texts
InitAnalyzer ==
    /\ SearchIdle
    /\ referral \in Texts
    /\ analysis = None
    /\ DistanceIdle
    /\ FormIdle
    /\ CallbackIdle

NextAnalyzer == Analyze

SpecAnalyzer == InitAnalyzer /\ [][NextAnalyzer]_vars

\* calculateDistance on every pair of Coordinates
InitDistance ==
    /\ SearchIdle
    /\ AnalyzerIdle
    /\ points \in [from : Coordinates, to : Coordinates]
    /\ measured = None
    /\ FormIdle
    /\ CallbackIdle

NextDistance == Measure

SpecDistance == InitDistance /\ [][NextDistance]_vars

\* the benefit form once mounted: the province effect has called
\* fetchBenefits() and its lookup is in flight
InitForm ==
    /\ SearchIdle
    /\ AnalyzerIdle
    /\ DistanceIdle
    /\ referralText = <<>>
    /\ selectedBenefit = <<>>
    /\ customBenefit = <<>>
    /\ useCustomBenefit = FALSE
    /\ availableBenefits = <<>>
    /\ loadingBenefits = TRUE
    /\ lookups = {[id |-> 1, c |-> searchBenefits(String(<<"p", "o", "r", "a", "d", "n", "i", "a">>), "1", "25")]}
    /\ issued = 1
    /\ newestLookup = NoLookup
    /\ CallbackIdle

NextForm ==
    \/ \E value \in ReferralInputs : handleReferralChange(value)
    \/ \E code \in {"07", "12"} : handleProvinceChange(code)
    \/ \E value \in CustomInputs : handleCustomBenefitChange(value)
    \/ toggleCustomBenefit
    \/ \E l \in lookups : \E r \in WireOutcomes(BenefitLists) : LookupFetchSettles(l, r)
    \/ \E l \in lookups : LookupJsonSettles(l)

SpecForm == InitForm /\ [][NextForm]_vars

\* NFZSearch rendered with an onResultsFound callback
InitCallback ==
    /\ calls = <<>>
    /\ userLocation = None
    /\ province = "07"
    /\ results = <<>>
    /\ loading = FALSE
    /\ error = None
    /\ summary = None
    /\ geo \in {"pending", "unsupported"}
    /\ inflight = {}
    /\ responseData = <<>>
    /\ started = 0
    /\ newest = NoOutcome
    /\ AnalyzerIdle
    /\ DistanceIdle
    /\ FormIdle
    /\ onResultsFound = TRUE
    /\ delivered = NotCalled

\* the registry answers with records of valid and of invalid dates
CallbackPool == {q \in QueuePool : q.id \in {"a", "b", "d"}}

CallbackLists == UNION {Arrangements(CallbackPool, n) : n \in 0..MaxRecords}

NextCallback ==
    \/ \E position \in Origins : GeolocationSuccess(position)
    \/ GeolocationError
    \/ SearchFacilities
    \/ \E s \in inflight : \E r \in WireOutcomes(CallbackLists) : SearchFetchSettles(s, r)
    \/ \E s \in inflight : SearchJsonSettles(s)

SpecCallback == InitCallback /\ [][NextCallback]_vars

(***************************************************************************)
(* Properties.                                                             *)
(***************************************************************************)
Present(r) == r.dates.date.k = "str"

\* calendar order of two date strings
DateLeq(x, y) ==
    \/ x.y < y.y
    \/ x.y = y.y /\ x.m < y.m
    \/ x.y = y.y /\ x.m = y.m /\ x.d <= y.d

HasDistance(r) == "distance" \in DOMAIN r

\* C1: after a search fails the component shows the generic failure message,
\* holds no results (not those of an earlier search either) and no summary.
C1_FailureClearsResults ==
    [][(newest.outcome = "none" /\ newest'.outcome = "failed")
         => /\ error' = Some(SearchFailedMessage)
            /\ results' = <<>>
            /\ summary' = None]_vars

\* C2: last request wins: once the response of the most recently started
\* search has been processed, the results and the summary shown are those
\* of that search, until another search is started.
C2_LastRequestWins ==
    /\ newest.outcome = "ok" =>
         /\ \E sorted \in sortByDate(newest.data) :
               results = rank(sorted, newest.location)
         /\ summary = Some(summarize(results))
    /\ newest.outcome = "empty" =>
         /\ results = <<>>
         /\ summary = Some(NoResultsSummary)

C2_Witness ==
    /\ started = 2
    /\ newest.outcome = "ok"
    /\ Len(results) = 2
    /\ inflight = {}

\* the wire outcome r is a failure: fetch rejection, non-ok status,
\* undecodable body, or an errors envelope
IsFailure(r) ==
    \/ r.t = "reject"
    \/ ~ok(r)
    \/ r.body.k # "object"
    \/ r.body.errors # None

\* C3: every client call issues exactly one network request; after a failure
\* the call is rejected with the error and no further request is issued.
C3_OneRequestPerCall ==
    \A n \in DOMAIN calls :
        LET c == calls[n].c IN
        /\ c.fetches = 1
        /\ (c.wire # None /\ IsFailure(c.wire[1])) =>
              /\ c.pc \in {"json", "rejected"}
              /\ c.pc = "json" => (ok(c.wire[1]) /\ c.err = None)
              /\ c.pc = "rejected" => c.err # None

C3_Witness ==
    \E n \in DOMAIN calls :
        /\ calls[n].c.pc = "rejected"
        /\ calls[n].c.fetches = 1
        /\ calls[n].c.wire[1].body.errors # None
        /\ ok(calls[n].c.wire[1])

\* the error names the client produces for transport and decode failures
TransportErrorNames ==
    {requestAfterFetch(getApiInfo, FetchRejected).err[1].name,
     requestAfterFetch(getApiInfo,
                       Response(500, "Internal Server Error", BodyInvalid)).err[1].name}

DecodeErrorNames ==
    {requestAfterJson(requestAfterFetch(getApiInfo,
                                        Response(200, "OK", BodyInvalid))).err[1].name}

\* C4: a call answered with an errors envelope fails with an UpstreamError
\* that carries the first error's reason, code and solution, and whose kind
\* differs from that of a transport failure and of a decode failure.
C4_EnvelopeGivesUpstreamError ==
    \A n \in DOMAIN calls :
        LET c == calls[n].c IN
        (/\ c.pc = "rejected"
         /\ c.wire[1].t = "response"
         /\ c.wire[1].body.errors # None
         /\ c.wire[1].body.errors[1] # <<>>) =>
            LET e == c.err[1]
                first == c.wire[1].body.errors[1][1]
            IN /\ e.name = "UpstreamError"
               /\ e.name \notin TransportErrorNames \cup DecodeErrorNames
               /\ {first.reason, first.code, first.solution} \subseteq Range(e.message)

InvalidInput(i) ==
    \/ i.op = "getQueues" /\ i.prov \notin PROVINCES
    \/ i.op \in SearchOps /\ Len(i.name) < 3

\* C5: a getQueues call with an unknown province, or a search call with a
\* term under 3 characters, fails with a validation error and issues no
\* network request.
C5_ValidationBeforeNetwork ==
    \A n \in DOMAIN calls :
        InvalidInput(calls[n].in) =>
            /\ calls[n].c.fetches = 0
            /\ calls[n].c.pc = "rejected"
            /\ calls[n].c.err # None
            /\ calls[n].c.err[1].name = "ValidationError"

\* the earliest present date of a data array, formatted
EarliestDate(data) ==
    LET present == {data[i].dates.date : i \in {j \in DOMAIN data : Present(data[j])}}
    IN formatDate(CHOOSE x \in present : \A y \in present : DateLeq(x, y))

AscendingByDistance(s) ==
    \A i, j \in DOMAIN s :
        (i < j /\ HasDistance(s[i]) /\ HasDistance(s[j])) =>
            s[i].distance <= s[j].distance

\* C6: when an origin is known and the table is ordered by distance, the date
\* of the summary is the earliest available date over all returned records.
C6_SummaryReportsEarliestDate ==
    (/\ newest.outcome = "ok"
     /\ newest.location # None
     /\ AscendingByDistance(results)
     /\ \E i \in DOMAIN newest.data : Present(newest.data[i])) =>
        summary[1].earliestDate = EarliestDate(newest.data)

\* C7: the distance sort is ascending by distance for every input, a record
\* at distance 0 coming first, and records without a distance come last.
C7_DistanceSortAscending ==
    (newest.outcome = "ok" /\ newest.location # None) =>
        \A i, j \in DOMAIN results :
            i < j =>
               /\ HasDistance(results[j]) => HasDistance(results[i])
               /\ (HasDistance(results[i]) /\ HasDistance(results[j])) =>
                     results[i].distance <= results[j].distance

\* C8: the date sort puts every record with a missing or inapplicable date
\* after every record with a present date, and drops no record.
C8_MissingDatesLast ==
    newest.outcome = "ok" =>
        /\ Len(responseData) = Len(newest.data)
        /\ Range(responseData) = Range(newest.data)
        /\ \A i, j \in DOMAIN responseData :
              (i < j /\ Present(responseData[j])) => Present(responseData[i])

\* C9: with no origin and only present dates, the results are in ascending
\* order of date, hold the records of the response, and date-sorting them
\* again yields the same sequence.
C9_DateSortAscendingIdempotent ==
    (/\ newest.outcome = "ok"
     /\ newest.location = None
     /\ \A i \in DOMAIN newest.data : Present(newest.data[i])) =>
        /\ \A i, j \in DOMAIN results :
              i < j => DateLeq(results[i].dates.date, results[j].dates.date)
        /\ Len(results) = Len(newest.data)
        /\ Range(results) = Range(newest.data)
        /\ sortByDate(results) = {results}

C9_Witness ==
    /\ newest.outcome = "ok"
    /\ newest.location = None
    /\ Len(newest.data) = 2
    /\ newest.data[1].dates.date = DateString(2025, 3, 1)
    /\ newest.data[2].dates.date = DateString(2025, 2, 15)
    /\ results[1].dates.date = DateString(2025, 2, 15)

\* C10: after a search a record carries a distance if and only if an origin
\* was known when the response was processed; with no origin the records
\* are those of the response, without a distance.
C10_DistanceIffOriginKnown ==
    newest.outcome = "ok" =>
        /\ \A i \in DOMAIN results : HasDistance(results[i]) <=> newest.located
        /\ ~newest.located => Range(results) = Range(newest.data)


(***************************************************************************)
(* The referral analyzer.                                                  *)
(***************************************************************************)
\* the trigger words the normalized text n contains
TriggersIn(n) == {k \in DOMAIN benefitKeywords : includes(n, benefitKeywords[k])}

\* the trigger word of n at the smallest text position
EarliestTrigger(n) ==
    benefitKeywords[CHOOSE k \in TriggersIn(n) : \A other \in TriggersIn(n) :
        indexOf(n, benefitKeywords[k], 0) <= indexOf(n, benefitKeywords[other], 0)]

\* C11: the benefit guess is the phrase around the trigger word that occurs
\* earliest in the text, whatever the order of the trigger-word list.
C11_EarliestTriggerWins ==
    analysis # None =>
        LET n == normalize(referral) IN
        TriggersIn(n) # {} =>
            analysis[1].benefit = phraseAround(n, EarliestTrigger(n))

\* C12: the example referral yields a non-empty benefit guess that contains
\* "poradni kardiologicznej".
C12_ExampleYieldsGuess ==
    (analysis # None /\ referral = ExampleReferral) =>
        /\ analysis[1].benefit # <<>>
        /\ includes(analysis[1].benefit,
                    <<"p", "o", "r", "a", "d", "n", "i", " ", "k", "a", "r", "d", "i", "o", "l", "o", "g", "i", "c", "z", "n", "e", "j">>)

\* the word tokens of a text: its maximal runs of characters that are not
\* whitespace, in text order
RECURSIVE WordTokensFrom(_, _, _)
WordTokensFrom(text, i, word) ==
    IF i > Len(text) THEN (IF word = <<>> THEN <<>> ELSE <<word>>)
    ELSE IF text[i] \in Whitespace
         THEN (IF word = <<>> THEN <<>> ELSE <<word>>) \o WordTokensFrom(text, i + 1, <<>>)
         ELSE WordTokensFrom(text, i + 1, Append(word, text[i]))

WordTokens(text) == WordTokensFrom(text, 1, <<>>)

IsStopWord(word) == \E i \in DOMAIN stopWords : stopWords[i] = word

\* C13: the keywords are the word tokens of the normalized text, in text
\* order, without the tokens of fewer than 3 characters and the stop words.
C13_KeywordsAreTheWords ==
    analysis # None =>
        LET Kept(word) == Len(word) >= 3 /\ ~IsStopWord(word) IN
        analysis[1].keywords = SelectSeq(WordTokens(normalize(referral)), Kept)


(***************************************************************************)
(* The summary, geolocation, the response array and loading.               *)
(***************************************************************************)
\* the summary states the count of the records and the provider and the
\* locality of the record presented first
SummaryOfResults ==
    /\ summary # None
    /\ summary[1].count = Len(results)
    /\ summary[1].count = Len(newest.data)
    /\ summary[1].nearestFacility = results[1].provider
    /\ summary[1].nearestLocation = results[1].locality

\* C14 as stated: when an empty response has been processed the summary is
\* the no-results message, the results are empty, there is no error and
\* loading is false.
C14_EmptyResponseNoError ==
    [][(newest.outcome = "none" /\ newest'.outcome = "empty")
         => /\ summary' = Some(NoResultsSummary)
            /\ results' = <<>>
            /\ error' = None
            /\ loading' = FALSE]_vars

\* C14: after an empty response the summary is the no-results message, the
\* results are empty, loading is false and the error is none or the
\* geolocation message; after a non-empty response the summary states the
\* count of the records and the provider and locality of the first result.
C14_SummaryOfResponse ==
    /\ newest.outcome = "empty" =>
         /\ summary = Some(NoResultsSummary)
         /\ results = <<>>
         /\ ~loading
         /\ error \in {None, Some(LocationDeniedMessage)}
    /\ newest.outcome = "ok" => SummaryOfResults

C14_Witness ==
    /\ newest.outcome = "ok"
    /\ Len(results) = 2
    /\ results[1].provider # results[2].provider
    /\ summary[1].count = 2
    /\ error = Some(LocationDeniedMessage)

\* C15: a geolocation failure or the lack of geolocation never disables the
\* search button nor a search in flight; a search made without a location
\* yields the date-sorted records of the response without distance; and the
\* geolocation outcome changes neither results, summary nor the searches.
C15_GeolocationNeverBlocks ==
    /\ [](/\ (geo \in {"failed", "unsupported"} /\ ~loading /\ started < MaxSearches)
               => ENABLED SearchFacilities
          /\ \A s \in inflight : s.c.pc \in {"fetch", "json"}
          /\ (newest.outcome = "ok" /\ newest.location = None) =>
                /\ results \in sortByDate(newest.data)
                /\ \A i \in DOMAIN results : ~HasDistance(results[i])
                /\ (\A i \in DOMAIN results : Present(results[i])) =>
                      \A i, j \in DOMAIN results :
                         i < j => DateLeq(results[i].dates.date, results[j].dates.date))
    /\ [][geo' # geo =>
            /\ results' = results
            /\ summary' = summary
            /\ inflight' = inflight
            /\ loading' = loading
            /\ newest' = newest]_vars

C15_Witness ==
    /\ geo = "failed"
    /\ error = Some(LocationDeniedMessage)
    /\ started = 2
    /\ newest.outcome = "ok"
    /\ Len(results) = 2
    /\ \A i \in DOMAIN results : ~HasDistance(results[i])

\* C17: ranking leaves the array of the response as the registry sent it.
C17_ResponseDataUntouched ==
    newest.outcome = "ok" => responseData = newest.data

\* C20: loading is true only while a search is in flight, and the step that
\* processes the response or the error of a search sets it to false and
\* leaves the search button enabled.
C20_LoadingEndsWithSearch ==
    /\ [](loading <=> inflight # {})
    /\ [][(newest.outcome = "none" /\ newest'.outcome # "none")
            => (~loading' /\ searchButtonEnabled')]_vars

C20_Witness ==
    /\ started = 2
    /\ newest.outcome = "failed"
    /\ results # <<>>
    /\ ~loading
    /\ inflight = {}


(***************************************************************************)
(* The distance.                                                           *)
(***************************************************************************)
\* C16: the distance from a to b equals the distance from b to a, and the
\* distance from a point to itself is 0.0.
C16_SymmetricAndZero ==
    measured # None =>
        /\ measured[1].there = measured[1].back
        /\ points.from = points.to => measured[1].there = 0

C16_Witness ==
    /\ measured # None
    /\ points.from.lat # points.to.lat
    /\ points.from.lon # points.to.lon
    /\ points.from.lat # 0 - points.to.lat
    /\ measured[1].there > 0
    /\ measured[1].there = measured[1].back

(***************************************************************************)
(* The benefit form.                                                       *)
(***************************************************************************)
\* the curated benefits whose name equals the guess, letter case aside
EqualCommonBenefits(guess) ==
    {CommonBenefitKeys[k] : k \in {j \in DOMAIN CommonBenefitKeys :
        toLowerCase(CommonBenefitKeys[j]) = toLowerCase(guess)}}

\* C18: when a referral text of more than 10 characters yields a benefit
\* guess, a curated benefit is selected only if its name equals the guess,
\* letter case aside; otherwise the form switches to the custom benefit with
\* the upper-cased guess and the selected benefit stays as it was.
C18_OnlyEqualNameSelects ==
    [][(/\ referralText' # referralText
        /\ Len(referralText') > 10
        /\ parseReferral(referralText').benefit # <<>>)
         => LET guess == parseReferral(referralText').benefit IN
            IF EqualCommonBenefits(guess) # {}
            THEN /\ selectedBenefit' \in EqualCommonBenefits(guess)
                 /\ ~useCustomBenefit'
            ELSE /\ useCustomBenefit'
                 /\ customBenefit' = toUpperCase(guess)
                 /\ selectedBenefit' = selectedBenefit]_vars

\* C19: loadingBenefits is false only when no lookup is in flight, and once
\* the most recently issued lookup has been answered the suggestion list is
\* its response, whatever older lookups answer later.
C19_NewestLookupWins ==
    /\ ~loadingBenefits => lookups = {}
    /\ newestLookup.outcome = "ok" => availableBenefits = newestLookup.data


(***************************************************************************)
(* One search at a time, and the onResultsFound callback.                  *)
(***************************************************************************)
\* C21: while loading is true no search can be started, a search is started
\* only when none is in flight, and at most one getQueues request of the
\* component is in flight at any time.
C21_OneSearchInFlight ==
    /\ [](/\ Cardinality(inflight) <= 1
          /\ loading => ~(ENABLED SearchFacilities))
    /\ [][started' # started => (~loading /\ inflight = {})]_vars

C21_Witness ==
    /\ started = 2
    /\ loading
    /\ Cardinality(inflight) = 1
    /\ results # <<>>


\* C22: onResultsFound is called at most once per search, only by the step
\* that processes a non-empty response, and with the sequence that step
\* stores as results; the steps that process an empty response or a failure
\* do not call it.
C22_CallbackOncePerSuccess ==
    /\ [](/\ delivered.times <= 1
          /\ delivered.search \in 0..started
          /\ delivered.search # 0 => delivered.results # <<>>
          /\ newest.outcome = "ok" =>
                delivered = [search |-> started, times |-> 1, results |-> results]
          /\ newest.outcome \in {"none", "empty", "failed"} =>
                delivered.search # started \/ delivered = NotCalled)
    /\ [][delivered' # delivered =>
            /\ newest.outcome = "none" /\ newest'.outcome = "ok"
            /\ delivered'.search = started
            /\ delivered'.results = results']_vars

\* after an empty response the last argument of the callback differs from
\* the results shown
C22_Witness ==
    /\ started = 2
    /\ newest.outcome = "empty"
    /\ results = <<>>
    /\ delivered.search = 1
    /\ delivered.times = 1
    /\ Len(delivered.results) = 2
    /\ HasDistance(delivered.results[1])

====
